---- MODULE Spec2Model ----
(***************************************************************************)
(* Model of the admin-page scripts of the crm repository:                  *)
(*   store_employee_autocomplete_by_service.js  (patchSelect2Ajax)         *)
(*   store_changelist_filters.js   (patchEmployeeSelect2, updateQuery,     *)
(*                                  injectServiceFilter)                   *)
(*   store_changelist_header_filters.js  (mountTopFilters, makeDropdown)   *)
(* Strings of the page (hrefs, query strings, element text) are sequences  *)
(* of tokens; parameter objects are functions from key names to strings.   *)
(*                                                                         *)
(* store_changelist_filters.js as committed closes its outer function      *)
(* twice (the "});" of line 120 and the "})();" of line 121), so a browser *)
(* rejects the file as a whole.  The model follows the bodies of its        *)
(* functions, that is the file with line 120 removed.                      *)
(***************************************************************************)
EXTENDS Integers, Sequences, FiniteSets, TLC

\* ------------------------------------------------------------------------
\* Bounds of the model
\* ------------------------------------------------------------------------
MaxWraps == 3
MaxNav == 3
MaxClicks == 4
MaxSections == 2

\* ------------------------------------------------------------------------
\* Values
\* ------------------------------------------------------------------------
\* JavaScript null / undefined where a string is expected
NULL == "<null>"

\* JavaScript truthiness of a string-or-null value
Truthy(v) == v # NULL /\ v # ""

EmptyObj == [k \in {} |-> ""]

\* data.store_id = v on a parameter object
SetKey(obj, key, v) ==
  [k \in (DOMAIN obj) \cup {key} |-> IF k = key THEN v ELSE obj[k]]

\* ------------------------------------------------------------------------
\* State
\* ------------------------------------------------------------------------
\* --- state of the autocomplete widgets (Part 1)
VARIABLES
  onPage,          \* the autocomplete widgets of the page
  jq,              \* django.jQuery is present ($ is not null)
  s2cfg,           \* per widget: "none" (no select2 data), "noajax", "ajax"
  ajaxData,        \* per widget: s2.options.options.ajax.data, as the
                   \* host-supplied value and the number of wrappers around it
  dataObj,         \* per widget: the contents of a host-supplied data object
  patchedStoreId,  \* per widget: $el.data("patchedStoreId")
  hasInput,        \* per widget: it holds an input.select2-hidden-accessible
  rowOf,           \* per widget: the table row that contains it
  rows,            \* per row: its links and hidden id inputs
  empInit,         \* initEmployeeAutocompletePatching: "pending", "done"
  autoInit,        \* the autocomplete-by-service script: "pending", "done"
  idAtPatch,       \* per widget: what the row yielded when it was last patched
  skipped,         \* per widget: a patch of it returned for lack of configuration
  lastEvent        \* the last operation of the scripts, with the state before

varsPatch == <<onPage, jq, s2cfg, ajaxData, dataObj, patchedStoreId, hasInput,
               rowOf, rows, empInit, autoInit, idAtPatch, skipped, lastEvent>>
\* --- state of the top filter panel (Part 2)
VARIABLES
  filterRoot,      \* #changelist-filter is in the document
  filterKids,      \* its child elements, in document order
  toolbar,         \* #toolbar is in the document
  actionsBar,      \* #changelist .actions is in the document
  changelist,      \* #changelist is in the document
  panels,          \* the .top-filters panels of the document
  docListeners,    \* the click listeners on document: the menu each one hides
  mountPc,         \* how many of the three mountTopFilters calls have run
  clicks,          \* the clicks so far
  lastMount        \* the last mountTopFilters call, with the panels before it

varsMount == <<filterRoot, filterKids, toolbar, actionsBar, changelist, panels,
               docListeners, mountPc, clicks, lastMount>>
\* --- state of the service filter (Part 3)
VARIABLES
  pathname,        \* the path of window.location
  search,          \* the query string of window.location, without the "?"
  hash,            \* the fragment of window.location, without the "#"
  thPresent,       \* th.column-services is in the document
  filterSelect,    \* the injected select: its selected options, or "none"
  loadPc,          \* "loading" until DOMContentLoaded, then "loaded"
  navCount,        \* navigations made by updateQuery
  lastNav          \* the last updateQuery: the location before it, the value

varsQuery == <<pathname, search, hash, thPresent, filterSelect, loadPc, navCount,
               lastNav>>

vars == <<varsPatch, varsMount, varsQuery>>

\* ========================================================================
\* Part 1: the autocomplete request augmenters
\* ========================================================================
EmpWidgets == {"emp"}
AutoWidgets == {"auto"}
Widgets == EmpWidgets \cup AutoWidgets
Rows == {1, 2}

\* hrefs of the links of a row, as token sequences
HrefChange123 == <<"/", "store", "/", "123", "/", "change", "/">>
HrefChange7 == <<"/", "store", "/", "7", "/", "change", "/">>
HrefHistory7 == <<"/", "store", "/", "7", "/", "history", "/">>
HrefChangeQuery == <<"/", "store", "/", "7", "/", "change", "/", "?_changelist_filters">>
DigitSegments == {"123", "7"}

\* What the host page may render in a table row: its links in document order
\* and the values of its hidden inputs whose name ends in "-id".
RowConfigs ==
  { [links |-> <<HrefChange123>>, hiddenIds |-> <<"123">>],
    [links |-> <<>>, hiddenIds |-> <<>>],
    [links |-> <<HrefHistory7, HrefChange7>>, hiddenIds |-> <<"">>],
    [links |-> <<HrefChangeQuery>>, hiddenIds |-> <<"7">>] }

\* The params objects the widget library passes to ajax.data
Params == { [term |-> "ann"], [term |-> "bob", page |-> "2"] }

\* The three shapes of a host-supplied ajax.data: none, a function, an object
Origs == {"undef", "fn", "obj"}

\* A host-supplied ajax.data function (the admin's own autocomplete script
\* builds the query from the params and the field it serves)
OrigFn(p) ==
  [k \in (DOMAIN p) \cup {"field_name"} |->
     IF k = "field_name" THEN "assigned_employee" ELSE p[k]]

\* A host-supplied ajax.data plain object
OrigObj == [field_name |-> "assigned_employee"]

NoData == [orig |-> "undef", wraps |-> 0]


HostEvent == [op |-> "host"]

\* --- store_employee_autocomplete_by_service.js --------------------------

\* a[href*="/change/"]
HrefContainsChange(h) ==
  \E i \in 1..(Len(h) - 2) : h[i] = "/" /\ h[i + 1] = "change" /\ h[i + 2] = "/"

\* href.match(/\/(\d+)\/change\/?$/), m ? m[1] : null
MatchChangeId(h) ==
  LET n == Len(h)
      e == IF n > 0 /\ h[n] = "/" THEN n - 1 ELSE n
  IN IF e >= 4 /\ h[e] = "change" /\ h[e - 1] = "/"
        /\ h[e - 2] \in DigitSegments /\ h[e - 3] = "/"
     THEN h[e - 2]
     ELSE NULL

\* getStoreIdFromRow($row): the first link whose href contains "/change/"
GetStoreIdFromRow(r) ==
  LET links == rows[r].links
      hits == {i \in 1..Len(links) : HrefContainsChange(links[i])}
  IN IF hits = {} THEN NULL
     ELSE MatchChangeId(links[CHOOSE i \in hits : \A j \in hits : i <= j])

\* a wrapper that keeps the id its row held when the patch was installed
AutoIdCaptured(w) == idAtPatch[w]

\* const $row = $input.closest("tr"); getStoreIdFromRow($row) in the wrapper
AutoIdAtCall(w) == GetStoreIdFromRow(rowOf[w])

\* a wrapper that returns the id alone and drops what oldData built
AutoMergeOnlyId(data, id) ==
  IF Truthy(id) THEN [store_id |-> id] ELSE data

\* if (storeId) data.store_id = storeId; return data;
AutoMerge(data, id) ==
  IF Truthy(id) THEN SetKey(data, "store_id", id) ELSE data

\* the guard of patchSelect2Ajax
AutoCanPatch(w) == s2cfg[w] = "ajax"

\* --- store_changelist_filters.js ----------------------------------------

\* getStoreIdFromRow(selectEl)
GetStoreIdFromRowEmp(r) ==
  IF ~jq THEN ""
  ELSE LET ids == rows[r].hiddenIds
       IN IF Len(ids) > 0 THEN ids[1] ELSE ""

\* getStoreIdFromRow(selectEl) in the wrapper
EmpIdAtCall(w) == GetStoreIdFromRowEmp(rowOf[w])

\* data.store_id = getStoreIdFromRow(selectEl); return data;
EmpMerge(data, id) == SetKey(data, "store_id", id)

\* a patch procedure that never looks at the marker
AlreadyPatchedNever(w) == FALSE

\* if ($el.data("patchedStoreId")) return;
AlreadyPatched(w) == patchedStoreId[w]

\* the wrapper is installed: none of the early returns of patchEmployeeSelect2
EmpInstalls(w) ==
  /\ jq
  /\ ~AlreadyPatched(w)
  /\ s2cfg[w] # "none"
  /\ s2cfg[w] = "ajax"

\* a patch procedure that sets the marker before it looks at the configuration
EmpMarkerEarly(w) == IF jq /\ ~AlreadyPatched(w) THEN TRUE ELSE patchedStoreId[w]

\* the marker after patchEmployeeSelect2(w)
EmpMarkerAfter(w) == IF EmpInstalls(w) THEN TRUE ELSE patchedStoreId[w]

\* --- the wrappers -------------------------------------------------------

\* One run of ajax.data with `n` wrappers of widget w around the host value:
\* [out, calls, err, obj] = the object returned, how often the host function
\* ran, whether a TypeError was thrown, the host data object afterwards.
RECURSIVE CallData(_, _, _)
CallData(w, p, n) ==
  LET orig == ajaxData[w].orig
      host == [out |-> OrigFn(p), calls |-> 1, err |-> FALSE, obj |-> dataObj[w]]
      thrown == [out |-> EmptyObj, calls |-> 0, err |-> TRUE, obj |-> dataObj[w]]
      fresh(o) == [out |-> o, calls |-> 0, err |-> FALSE, obj |-> dataObj[w]]
  IN IF n = 0 THEN (IF orig = "fn" THEN host ELSE thrown)
     ELSE IF w \in EmpWidgets
     THEN \* (typeof oldData === "function") ? oldData(params) : (oldData || {})
          LET inner == IF n > 1 \/ orig = "fn" THEN CallData(w, p, n - 1)
                       ELSE IF orig = "obj" THEN fresh(dataObj[w])
                       ELSE fresh(EmptyObj)
              data == EmpMerge(inner.out, EmpIdAtCall(w))
          IN IF inner.err THEN inner
             ELSE [inner EXCEPT !.out = data,
                                !.obj = IF n = 1 /\ orig = "obj" THEN data ELSE @]
     ELSE \* oldData ? oldData(params) : params
          LET inner == IF n > 1 \/ orig = "fn" THEN CallData(w, p, n - 1)
                       ELSE IF orig = "obj" THEN thrown
                       ELSE fresh(p)
          IN IF inner.err THEN inner
             ELSE [inner EXCEPT !.out = AutoMerge(inner.out, AutoIdAtCall(w))]

\* the installed ajax.data of w, called with p
Augmented(w, p) == CallData(w, p, ajaxData[w].wraps)

\* ajax.data is a function the widget library can call
Callable(w) ==
  s2cfg[w] = "ajax" /\ (ajaxData[w].wraps > 0 \/ ajaxData[w].orig = "fn")

\* what the row of w holds now: the hidden id of an employee select's row,
\* the id of the edit link of an autocomplete widget's row
RowIdNow(w) ==
  IF w \in EmpWidgets
  THEN (IF Len(rows[rowOf[w]].hiddenIds) > 0 THEN rows[rowOf[w]].hiddenIds[1] ELSE "")
  ELSE GetStoreIdFromRow(rowOf[w])

WidgetState(w) ==
  [cfg |-> s2cfg[w], data |-> ajaxData[w], marker |-> patchedStoreId[w]]

PatchEvent(ws) ==
  [op |-> "patch", ws |-> ws, pre |-> [w \in ws |-> WidgetState(w)]]

\* --- actions: the host page ---------------------------------------------

\* the widget library is initialised on a widget, or re-initialised with an
\* ajax configuration
HostConfigure(w, cfg, orig) ==
  /\ \/ s2cfg[w] = "none"
     \/ s2cfg[w] = "noajax" /\ cfg = "ajax"
  /\ s2cfg' = [s2cfg EXCEPT ![w] = cfg]
  /\ ajaxData' = [ajaxData EXCEPT ![w] =
                    IF cfg = "ajax" THEN [orig |-> orig, wraps |-> 0] ELSE NoData]
  /\ dataObj' = [dataObj EXCEPT ![w] =
                    IF cfg = "ajax" /\ orig = "obj" THEN OrigObj ELSE EmptyObj]
  /\ lastEvent' = HostEvent
  /\ UNCHANGED <<varsMount, varsQuery>>
  /\ UNCHANGED <<onPage, jq, patchedStoreId, hasInput, rowOf, rows, empInit,
                 autoInit, idAtPatch, skipped>>

\* the widget's inner input gets the class select2-hidden-accessible
HostRenderInput(w) ==
  /\ w \in AutoWidgets
  /\ ~hasInput[w]
  /\ hasInput' = [hasInput EXCEPT ![w] = TRUE]
  /\ lastEvent' = HostEvent
  /\ UNCHANGED <<varsMount, varsQuery>>
  /\ UNCHANGED <<onPage, jq, s2cfg, ajaxData, dataObj, patchedStoreId, rowOf,
                 rows, empInit, autoInit, idAtPatch, skipped>>

\* the host page renders a row anew
HostRerenderRow(r, c) ==
  /\ rows[r] # c
  /\ rows' = [rows EXCEPT ![r] = c]
  /\ lastEvent' = HostEvent
  /\ UNCHANGED <<varsMount, varsQuery>>
  /\ UNCHANGED <<onPage, jq, s2cfg, ajaxData, dataObj, patchedStoreId, hasInput,
                 rowOf, empInit, autoInit, idAtPatch, skipped>>

\* a widget ends up in another row (rows are moved or reordered)
HostMoveWidget(w, r) ==
  /\ rowOf[w] # r
  /\ rowOf' = [rowOf EXCEPT ![w] = r]
  /\ lastEvent' = HostEvent
  /\ UNCHANGED <<varsMount, varsQuery>>
  /\ UNCHANGED <<onPage, jq, s2cfg, ajaxData, dataObj, patchedStoreId, hasInput,
                 rows, empInit, autoInit, idAtPatch, skipped>>

\* --- actions: store_changelist_filters.js -------------------------------

\* patchEmployeeSelect2 on every widget of ws
PatchEmployeeSelect2(ws) ==
  /\ ajaxData' = [w \in Widgets |->
                    IF w \in ws /\ EmpInstalls(w)
                    THEN [ajaxData[w] EXCEPT !.wraps = @ + 1] ELSE ajaxData[w]]
  /\ patchedStoreId' = [w \in Widgets |->
                          IF w \in ws THEN EmpMarkerAfter(w) ELSE patchedStoreId[w]]
  /\ idAtPatch' = [w \in Widgets |->
                     IF w \in ws /\ EmpInstalls(w) THEN RowIdNow(w) ELSE idAtPatch[w]]
  /\ skipped' = [w \in Widgets |->
                   IF w \in ws /\ ~AlreadyPatched(w) /\ s2cfg[w] # "ajax"
                   THEN TRUE ELSE skipped[w]]
  /\ lastEvent' = PatchEvent(ws)

\* setTimeout(initEmployeeAutocompletePatching, 50): the initial pass over the
\* selects of the document, then the select2:opening handler is registered
InitEmployeeAutocompletePatching ==
  /\ empInit = "pending"
  /\ empInit' = "done"
  /\ \A w \in onPage \cap EmpWidgets :
       EmpInstalls(w) => ajaxData[w].wraps < MaxWraps
  /\ IF jq THEN PatchEmployeeSelect2(onPage \cap EmpWidgets)
     ELSE /\ lastEvent' = HostEvent
          /\ UNCHANGED <<ajaxData, patchedStoreId, idAtPatch, skipped>>
  /\ UNCHANGED <<varsMount, varsQuery>>
  /\ UNCHANGED <<onPage, jq, s2cfg, dataObj, hasInput, rowOf, rows, autoInit>>

\* select2:opening on an employee select; the widget library fires it, so the
\* select has its select2 data
EmployeeOpening(w) ==
  /\ w \in EmpWidgets
  /\ empInit = "done" /\ jq
  /\ s2cfg[w] # "none"
  /\ EmpInstalls(w) => ajaxData[w].wraps < MaxWraps
  /\ PatchEmployeeSelect2({w})
  /\ UNCHANGED <<varsMount, varsQuery>>
  /\ UNCHANGED <<onPage, jq, s2cfg, dataObj, hasInput, rowOf, rows, empInit,
                 autoInit>>

\* --- actions: store_employee_autocomplete_by_service.js -----------------

\* the script body: without jQuery it warns and returns, else $(init)
\* registers the select2:opening handler
AutoInit ==
  /\ autoInit = "pending"
  /\ autoInit' = "done"
  /\ lastEvent' = HostEvent
  /\ UNCHANGED <<varsMount, varsQuery>>
  /\ UNCHANGED <<onPage, jq, s2cfg, ajaxData, dataObj, patchedStoreId, hasInput,
                 rowOf, rows, empInit, idAtPatch, skipped>>

\* select2:opening inside an .admin-autocomplete widget: patchSelect2Ajax on
\* its input, when it has one
AutocompleteOpening(w) ==
  /\ w \in AutoWidgets
  /\ autoInit = "done" /\ jq
  /\ LET patches == hasInput[w] /\ AutoCanPatch(w)
     IN /\ patches => ajaxData[w].wraps < MaxWraps
        /\ ajaxData' = [ajaxData EXCEPT ![w] =
                          IF patches THEN [@ EXCEPT !.wraps = @ + 1] ELSE @]
        /\ idAtPatch' = [idAtPatch EXCEPT ![w] =
                           IF patches THEN RowIdNow(w) ELSE @]
        /\ skipped' = [skipped EXCEPT ![w] =
                         IF hasInput[w] /\ ~AutoCanPatch(w) THEN TRUE ELSE @]
  /\ lastEvent' = PatchEvent({w})
  /\ UNCHANGED <<varsMount, varsQuery>>
  /\ UNCHANGED <<onPage, jq, s2cfg, dataObj, patchedStoreId, hasInput, rowOf,
                 rows, empInit, autoInit>>

\* --- action: the widget library sends a search request ------------------
Request(w, p) ==
  /\ Callable(w)
  /\ LET r == Augmented(w, p)
     IN /\ dataObj' = [dataObj EXCEPT ![w] = r.obj]
        /\ lastEvent' = [op |-> "request", w |-> w, p |-> p, out |-> r.out,
                         calls |-> r.calls, err |-> r.err]
  /\ UNCHANGED <<varsMount, varsQuery>>
  /\ UNCHANGED <<onPage, jq, s2cfg, ajaxData, patchedStoreId, hasInput, rowOf,
                 rows, empInit, autoInit, idAtPatch, skipped>>

InitPatch ==
  /\ onPage \in {{"emp"}, {"auto"}}
  /\ jq \in BOOLEAN
  /\ s2cfg = [w \in Widgets |-> "none"]
  /\ ajaxData = [w \in Widgets |-> NoData]
  /\ dataObj = [w \in Widgets |-> EmptyObj]
  /\ patchedStoreId = [w \in Widgets |-> FALSE]
  /\ hasInput = [w \in Widgets |-> FALSE]
  /\ rowOf = [w \in Widgets |-> 1]
  /\ rows \in [Rows -> RowConfigs]
  /\ empInit = "pending"
  /\ autoInit = "pending"
  /\ idAtPatch = [w \in Widgets |-> NULL]
  /\ skipped = [w \in Widgets |-> FALSE]
  /\ lastEvent = HostEvent

NextPatch ==
  \/ \E w \in onPage, cfg \in {"noajax", "ajax"}, orig \in Origs :
       HostConfigure(w, cfg, orig)
  \/ \E w \in onPage : HostRenderInput(w)
  \/ \E r \in Rows, c \in RowConfigs : HostRerenderRow(r, c)
  \/ \E w \in onPage, r \in Rows : HostMoveWidget(w, r)
  \/ InitEmployeeAutocompletePatching
  \/ \E w \in onPage : EmployeeOpening(w)
  \/ AutoInit
  \/ \E w \in onPage : AutocompleteOpening(w)
  \/ \E w \in onPage, p \in Params : Request(w, p)


\* ------------------------------------------------------------------------
\* Properties of the request augmenters
\* ------------------------------------------------------------------------
IsPatchOf(w) == lastEvent.op = "patch" /\ w \in lastEvent.ws
IsRequest == lastEvent.op = "request"

\* C1: an employee select is wrapped at most once, it carries the marker
\* exactly when it is wrapped, and a patch invocation that finds the marker
\* leaves ajax.data as it was.
C1_PatchedExactlyOnce ==
  \A w \in onPage \cap EmpWidgets :
    /\ ajaxData[w].wraps <= 1
    /\ patchedStoreId[w] <=> (ajaxData[w].wraps = 1)
    /\ (IsPatchOf(w) /\ lastEvent.pre[w].marker)
         => ajaxData[w] = lastEvent.pre[w].data

C1_Witness ==
  /\ IsPatchOf("emp")
  /\ lastEvent.pre["emp"].marker
  /\ ajaxData["emp"].wraps = 1

\* C2: an .admin-autocomplete widget handled by patchSelect2Ajax never has
\* more than one augmenting layer around its original ajax.data.
C2_WrapDepthAtMostOne ==
  \A w \in onPage \cap AutoWidgets : ajaxData[w].wraps <= 1

\* C3: when the row of a patched widget yields no identifier, a request's
\* parameter object has no store_id key.
C3_NoStoreIdKeyWhenAbsent ==
  (IsRequest /\ ~lastEvent.err /\ ajaxData[lastEvent.w].wraps >= 1
     /\ ~Truthy(RowIdNow(lastEvent.w)))
    => "store_id" \notin DOMAIN lastEvent.out

\* C4: on a widget without a prior data function the augmented call starts
\* from params: every key of params is in the result with its value and the
\* only key added is store_id, carrying the row's identifier.
C4_StartsFromParams ==
  (IsRequest /\ ajaxData[lastEvent.w].wraps >= 1
     /\ ajaxData[lastEvent.w].orig # "fn")
    => /\ ~lastEvent.err
       /\ \A k \in DOMAIN lastEvent.p :
            k \in DOMAIN lastEvent.out /\ lastEvent.out[k] = lastEvent.p[k]
       /\ DOMAIN lastEvent.out \subseteq (DOMAIN lastEvent.p) \cup {"store_id"}
       /\ Truthy(RowIdNow(lastEvent.w))
            => /\ "store_id" \in DOMAIN lastEvent.out
               /\ lastEvent.out["store_id"] = RowIdNow(lastEvent.w)

\* C5: where the original ajax.data is a function, every request runs it
\* exactly once and returns its output, changed at most in the store_id key.
C5_SupersetOfOriginal ==
  (IsRequest /\ ajaxData[lastEvent.w].orig = "fn")
    => LET host == OrigFn(lastEvent.p)
           out == lastEvent.out
       IN /\ ~lastEvent.err
          /\ lastEvent.calls = 1
          /\ \A k \in DOMAIN host : k \in DOMAIN out
          /\ \A k \in (DOMAIN host) \ {"store_id"} : out[k] = host[k]
          /\ DOMAIN out \subseteq (DOMAIN host) \cup {"store_id"}

C5_Witness ==
  /\ IsRequest
  /\ ajaxData[lastEvent.w].orig = "fn"
  /\ ajaxData[lastEvent.w].wraps >= 2
  /\ "store_id" \in DOMAIN lastEvent.out
  /\ lastEvent.calls = 1

\* C6: the store_id of a request is the identifier the widget's row holds at
\* the time of the request, whatever the row held when the patch was made.
C6_ReadAtCallTime ==
  (IsRequest /\ ~lastEvent.err /\ ajaxData[lastEvent.w].wraps >= 1)
    => /\ "store_id" \in DOMAIN lastEvent.out
            => lastEvent.out["store_id"] = RowIdNow(lastEvent.w)
       /\ Truthy(RowIdNow(lastEvent.w)) => "store_id" \in DOMAIN lastEvent.out

C6_Witness ==
  /\ IsRequest
  /\ ajaxData[lastEvent.w].wraps >= 1
  /\ Truthy(idAtPatch[lastEvent.w])
  /\ Truthy(RowIdNow(lastEvent.w))
  /\ idAtPatch[lastEvent.w] # RowIdNow(lastEvent.w)
  /\ "store_id" \in DOMAIN lastEvent.out
  /\ lastEvent.out["store_id"] = RowIdNow(lastEvent.w)

\* C7: a patch invocation on a widget without select2 data or without an
\* ajax configuration changes nothing and sets no marker; an invocation on a
\* configured, unmarked widget installs the wrapper.
C7_SkipLeavesNoTrace ==
  /\ \A w \in Widgets :
       s2cfg[w] # "ajax" => ~patchedStoreId[w] /\ ajaxData[w] = NoData
  /\ lastEvent.op = "patch" =>
       \A w \in lastEvent.ws :
         /\ lastEvent.pre[w].cfg # "ajax" => WidgetState(w) = lastEvent.pre[w]
         /\ (/\ lastEvent.pre[w].cfg = "ajax"
             /\ ~lastEvent.pre[w].marker
             /\ w \in AutoWidgets => hasInput[w])
              => ajaxData[w].wraps = lastEvent.pre[w].data.wraps + 1

C7_Witness ==
  /\ IsPatchOf("emp")
  /\ skipped["emp"]
  /\ lastEvent.pre["emp"].cfg = "ajax"
  /\ ajaxData["emp"].wraps = lastEvent.pre["emp"].data.wraps + 1
  /\ patchedStoreId["emp"]

\* ========================================================================
\* Part 2: store_changelist_header_filters.js, the top filter panel
\* ========================================================================
\* Element text is a sequence of tokens; "sp" is a run of one white-space
\* character.  "Status" and "Services" stand for the two filter titles the
\* script looks for, "All" for the label of an unselected filter.
TitleStatus == "Status"
TitleServices == "Services"
LabelAll == "All"

H3(text) == [tag |-> "H3", text |-> text, links |-> <<>>, sel |-> 0]
Para == [tag |-> "P", text |-> <<>>, links |-> <<>>, sel |-> 0]
\* a filter list: the texts of its links and the index of its li.selected
Ul(links, sel) == [tag |-> "UL", text |-> <<>>, links |-> links, sel |-> sel]

StatusUl == Ul(<<<<"All">>, <<"sp", "Active", "sp">>>>, 2)
ServiceUl == Ul(<<<<"All">>, <<"Cleaning", "sp", "sp", "only">>>>, 0)

\* What the host page may render as one filter section of #changelist-filter
Sections ==
  { <<H3(<<TitleStatus>>), StatusUl>>,
    <<H3(<<"sp", TitleServices, "sp", "sp">>), ServiceUl>>,
    <<H3(<<TitleServices>>), Para, ServiceUl>>,
    <<H3(<<"By", "sp", TitleStatus>>), StatusUl>> }


\* norm(s): s.replace(/\s+/g, " ").trim()
RECURSIVE Collapse(_)
Collapse(s) ==
  IF Len(s) < 2 THEN s
  ELSE IF s[1] = "sp" /\ s[2] = "sp" THEN Collapse(Tail(s))
  ELSE <<s[1]>> \o Collapse(Tail(s))

Trim(s) ==
  LET a == IF s # <<>> /\ s[1] = "sp" THEN Tail(s) ELSE s
  IN IF a # <<>> /\ a[Len(a)] = "sp" THEN SubSeq(a, 1, Len(a) - 1) ELSE a

Norm(s) == Trim(Collapse(s))

\* textContent of a child of the filter root
RECURSIVE JoinTexts(_)
JoinTexts(ts) == IF ts = <<>> THEN <<>> ELSE <<"sp">> \o ts[1] \o JoinTexts(Tail(ts))

TextContent(el) == IF el.tag = "UL" THEN JoinTexts(el.links) ELSE el.text

\* parent.querySelector("ul") on the filter root: its first ul, 0 for null
FirstUl ==
  LET uls == {i \in 1..Len(filterKids) : filterKids[i].tag = "UL"}
  IN IF uls = {} THEN 0 ELSE CHOOSE i \in uls : \A j \in uls : i <= j

\* findUlForFilterTitle(root, titleText) as the index of the ul, 0 for null.
\* The children of the root are flat, so a candidate's closest container is
\* the root and no candidate holds a ul of its own.
RECURSIVE FindFrom(_, _)
FindFrom(i, title) ==
  IF i > Len(filterKids) THEN 0
  ELSE IF Norm(TextContent(filterKids[i])) # <<title>> THEN FindFrom(i + 1, title)
  ELSE IF i < Len(filterKids) /\ filterKids[i + 1].tag = "UL" THEN i + 1
  ELSE IF FirstUl # 0 THEN FirstUl
  ELSE FindFrom(i + 1, title)

FindUlForFilterTitle(title) == IF filterRoot THEN FindFrom(1, title) ELSE 0

\* activeLabel(ul)
ActiveLabel(ul) == IF ul.sel = 0 THEN <<LabelAll>> ELSE Norm(ul.links[ul.sel])

\* makeDropdown(title, ul): the button text, the cloned links, the menu hidden
MakeDropdown(title, ul) ==
  [title |-> title,
   label |-> <<title, ":", "sp">> \o ActiveLabel(ul),
   items |-> ul.links,
   hidden |-> TRUE]

\* toolbar ? toolbar : (qs("#changelist .actions") || qs("#changelist"))
Anchor ==
  IF toolbar THEN "toolbar"
  ELSE IF changelist /\ actionsBar THEN "actions"
  ELSE IF changelist THEN "changelist"
  ELSE NULL

\* a mount procedure that does not look for an existing panel
PanelExistsNever == FALSE

\* qs(".top-filters")
PanelExists == Len(panels) > 0

MountEvent == [op |-> "mount", pre |-> panels, listeners |-> docListeners]

\* mountTopFilters()
MountTopFilters ==
  LET statusUl == FindUlForFilterTitle(TitleStatus)
      serviceUl == FindUlForFilterTitle(TitleServices)
      dds == (IF statusUl # 0
              THEN <<MakeDropdown(TitleStatus, filterKids[statusUl])>> ELSE <<>>)
             \o (IF serviceUl # 0
                 THEN <<MakeDropdown(TitleServices, filterKids[serviceUl])>>
                 ELSE <<>>)
      panel == [at |-> IF toolbar THEN "afterToolbar"
                       ELSE IF Anchor = "actions" THEN "beforeActions"
                       ELSE "beforeChangelist",
                dropdowns |-> dds]
      n == Len(panels) + 1
  IN /\ lastMount' = MountEvent
     /\ IF \/ ~filterRoot
           \/ Anchor = NULL
           \/ PanelExists
           \/ (statusUl = 0 /\ serviceUl = 0)
        THEN UNCHANGED <<panels, docListeners>>
        ELSE /\ panels' = Append(panels, panel)
             /\ docListeners' = docListeners \o [d \in 1..Len(dds) |-> <<n, d>>]

\* --- actions: the three scheduled calls ---------------------------------
DOMContentLoaded ==
  /\ mountPc = 0
  /\ mountPc' = 1
  /\ MountTopFilters
  /\ UNCHANGED <<varsPatch, varsQuery>>
  /\ UNCHANGED <<filterRoot, filterKids, toolbar, actionsBar, changelist, clicks>>

\* setTimeout(mountTopFilters, 200)
Timer200 ==
  /\ mountPc = 1
  /\ mountPc' = 2
  /\ MountTopFilters
  /\ UNCHANGED <<varsPatch, varsQuery>>
  /\ UNCHANGED <<filterRoot, filterKids, toolbar, actionsBar, changelist, clicks>>

\* setTimeout(mountTopFilters, 800)
Timer800 ==
  /\ mountPc = 2
  /\ mountPc' = 3
  /\ MountTopFilters
  /\ UNCHANGED <<varsPatch, varsQuery>>
  /\ UNCHANGED <<filterRoot, filterKids, toolbar, actionsBar, changelist, clicks>>

\* --- actions: the host page renders -------------------------------------
HostAddFilterRoot ==
  /\ changelist /\ ~filterRoot
  /\ filterRoot' = TRUE
  /\ lastMount' = HostEvent
  /\ UNCHANGED <<varsPatch, varsQuery>>
  /\ UNCHANGED <<filterKids, toolbar, actionsBar, changelist, panels,
                 docListeners, mountPc, clicks>>

SectionCount == Cardinality({i \in 1..Len(filterKids) : filterKids[i].tag = "H3"})

HostAddSection(sec) ==
  /\ filterRoot
  /\ SectionCount < MaxSections
  /\ filterKids' = filterKids \o sec
  /\ lastMount' = HostEvent
  /\ UNCHANGED <<varsPatch, varsQuery>>
  /\ UNCHANGED <<filterRoot, toolbar, actionsBar, changelist, panels,
                 docListeners, mountPc, clicks>>

HostAddToolbar ==
  /\ changelist /\ ~toolbar
  /\ toolbar' = TRUE
  /\ lastMount' = HostEvent
  /\ UNCHANGED <<varsPatch, varsQuery>>
  /\ UNCHANGED <<filterRoot, filterKids, actionsBar, changelist, panels,
                 docListeners, mountPc, clicks>>

HostAddActions ==
  /\ changelist /\ ~actionsBar
  /\ actionsBar' = TRUE
  /\ lastMount' = HostEvent
  /\ UNCHANGED <<varsPatch, varsQuery>>
  /\ UNCHANGED <<filterRoot, filterKids, toolbar, changelist, panels,
                 docListeners, mountPc, clicks>>

\* --- actions: clicks ----------------------------------------------------

\* a button listener that lets the click bubble on to document
StopsPropagationNot == FALSE

\* e.stopPropagation() in the button's click listener
StopsPropagation == TRUE

\* the document listeners run: each sets its menu hidden
HideListened(ps) ==
  [pi \in 1..Len(ps) |->
     [ps[pi] EXCEPT !.dropdowns =
        [di \in 1..Len(ps[pi].dropdowns) |->
           IF \E k \in 1..Len(docListeners) : docListeners[k] = <<pi, di>>
           THEN [ps[pi].dropdowns[di] EXCEPT !.hidden = TRUE]
           ELSE ps[pi].dropdowns[di]]]]

\* a click on the button of dropdown di of panel pi
ClickButton(pi, di) ==
  /\ pi \in 1..Len(panels)
  /\ di \in 1..Len(panels[pi].dropdowns)
  /\ Len(clicks) < MaxClicks
  /\ LET toggled == [panels EXCEPT ![pi].dropdowns[di].hidden = ~@]
     IN panels' = IF StopsPropagation THEN toggled ELSE HideListened(toggled)
  /\ clicks' = Append(clicks, <<"button", pi, di>>)
  /\ lastMount' = HostEvent
  /\ UNCHANGED <<varsPatch, varsQuery>>
  /\ UNCHANGED <<filterRoot, filterKids, toolbar, actionsBar, changelist,
                 docListeners, mountPc>>

\* a click anywhere else in the document, once the page is loaded
ClickElsewhere ==
  /\ mountPc > 0
  /\ Len(clicks) < MaxClicks
  /\ panels' = HideListened(panels)
  /\ clicks' = Append(clicks, <<"outside", 0, 0>>)
  /\ lastMount' = HostEvent
  /\ UNCHANGED <<varsPatch, varsQuery>>
  /\ UNCHANGED <<filterRoot, filterKids, toolbar, actionsBar, changelist,
                 docListeners, mountPc>>

\* The page as the browser starts to load it
InitMount ==
  /\ changelist \in BOOLEAN
  /\ filterRoot = FALSE
  /\ filterKids = <<>>
  /\ toolbar = FALSE
  /\ actionsBar = FALSE
  /\ panels = <<>>
  /\ docListeners = <<>>
  /\ mountPc = 0
  /\ clicks = <<>>
  /\ lastMount = HostEvent

NextMount ==
  \/ DOMContentLoaded
  \/ Timer200
  \/ Timer800
  \/ HostAddFilterRoot
  \/ \E sec \in Sections : HostAddSection(sec)
  \/ HostAddToolbar
  \/ HostAddActions


\* A page the host has rendered in full before DOMContentLoaded
RenderedPages ==
  { s1 \o s2 : s1 \in Sections, s2 \in Sections } \cup Sections

InitClicks ==
  /\ changelist = TRUE
  /\ filterRoot = TRUE
  /\ filterKids \in RenderedPages
  /\ toolbar \in BOOLEAN
  /\ actionsBar = TRUE
  /\ panels = <<>>
  /\ docListeners = <<>>
  /\ mountPc = 0
  /\ clicks = <<>>
  /\ lastMount = HostEvent

NextClicks ==
  \/ DOMContentLoaded
  \/ Timer200
  \/ Timer800
  \/ \E pi \in 1..Len(panels) : \E di \in 1..2 : ClickButton(pi, di)
  \/ ClickElsewhere


\* ------------------------------------------------------------------------
\* Properties of the top filter panel
\* ------------------------------------------------------------------------
HasList(title) ==
  \E i \in 1..Len(filterKids) :
    filterKids[i].tag = "H3" /\ Norm(filterKids[i].text) = <<title>>

\* C8: there is never more than one .top-filters panel; a mountTopFilters
\* call that finds no filter root, no anchor, neither list, or a panel already
\* there leaves the panels and the document listeners as they were.
C8_AtMostOnePanel ==
  /\ Len(panels) <= 1
  /\ (/\ lastMount.op = "mount"
      /\ \/ ~filterRoot
         \/ ~(toolbar \/ changelist)
         \/ ~(HasList(TitleStatus) \/ HasList(TitleServices))
         \/ lastMount.pre # <<>>)
       => panels = lastMount.pre /\ docListeners = lastMount.listeners

C8_Witness ==
  /\ mountPc = 3
  /\ lastMount.op = "mount"
  /\ Len(lastMount.pre) = 1
  /\ panels = lastMount.pre
  /\ Len(panels[1].dropdowns) = 2

\* the clicks after the last click outside the buttons
RECURSIVE SinceOutside(_)
SinceOutside(h) ==
  IF h = <<>> THEN <<>>
  ELSE IF h[Len(h)][1] = "outside" THEN <<>>
  ELSE Append(SinceOutside(SubSeq(h, 1, Len(h) - 1)), h[Len(h)])

TimesClicked(h, pi, di) ==
  Cardinality({k \in 1..Len(h) : h[k] = <<"button", pi, di>>})

\* C10: a menu is visible exactly when its own button has been clicked an
\* odd number of times since the last click outside the buttons.
C10_VisibleIffOddClicks ==
  \A pi \in 1..Len(panels) : \A di \in 1..Len(panels[pi].dropdowns) :
    ~panels[pi].dropdowns[di].hidden
      <=> (TimesClicked(SinceOutside(clicks), pi, di) % 2 = 1)

C10_Witness ==
  /\ Len(panels) = 1
  /\ Len(panels[1].dropdowns) = 2
  /\ ~panels[1].dropdowns[1].hidden
  /\ panels[1].dropdowns[2].hidden
  /\ TimesClicked(SinceOutside(clicks), 1, 2) = 2
  /\ \E k \in 1..Len(clicks) : clicks[k][1] = "outside"

\* ========================================================================
\* Part 3: store_changelist_filters.js, the service filter of the header
\* ========================================================================
\* A query string is a sequence of tokens: "&" and "=" separate, "+" and the
\* %XX tokens are escapes, every other token is a run of plain characters.
\* A decoded name or value is a sequence of plain tokens and of the
\* characters " ", "&", "=", "+".

\* the option values of the injected select; <<>> is the empty string
OptionValues == {<<>>, <<"cleaning_only">>, <<"merch_only">>, <<"both">>}

\* The query strings the page may be opened with
InitQueries ==
  { <<>>,
    <<"p", "=", "2">>,
    <<"service", "=", "both", "&", "p", "=", "3", "&", "q", "=", "a", "+", "b">>,
    <<"q", "=", "a", "%26", "b", "&", "service", "=", "old", "&",
      "service", "=", "merch_only">>,
    <<"flag", "&", "&", "service", "=", "both">>,
    <<"status", "=", "x", "%3D", "y", "%2B", "&", "p", "=", "1", "&", "p", "=", "2">> }


NoSelect == [present |-> FALSE, selected |-> {}]

\* the path of the changelist page
AdminPath == <<"/", "admin", "/", "app", "/", "store", "/">>

NoNav == [path |-> <<>>, from |-> <<>>, value |-> <<>>]

DecodeToken(t) ==
  CASE t = "+" -> " "
    [] t = "%20" -> " "
    [] t = "%26" -> "&"
    [] t = "%3D" -> "="
    [] t = "%2B" -> "+"
    [] OTHER -> t

EncodeToken(t) ==
  CASE t = " " -> "+"
    [] t = "&" -> "%26"
    [] t = "=" -> "%3D"
    [] t = "+" -> "%2B"
    [] OTHER -> t

Decode(s) == [i \in 1..Len(s) |-> DecodeToken(s[i])]
Encode(s) == [i \in 1..Len(s) |-> EncodeToken(s[i])]

\* the position of the first token t of s, Len(s) + 1 when there is none
RECURSIVE IndexOf(_, _)
IndexOf(s, t) ==
  IF s = <<>> \/ s[1] = t THEN 1 ELSE 1 + IndexOf(Tail(s), t)

\* one name=value piece of a query string
ParsePiece(piece) ==
  LET eq == IndexOf(piece, "=")
  IN <<Decode(SubSeq(piece, 1, eq - 1)), Decode(SubSeq(piece, eq + 1, Len(piece)))>>

\* new URL(href).searchParams: the entries of a query string
RECURSIVE ParseQuery(_)
ParseQuery(q) ==
  IF q = <<>> THEN <<>>
  ELSE LET amp == IndexOf(q, "&")
           piece == SubSeq(q, 1, amp - 1)
           rest == SubSeq(q, amp + 1, Len(q))
       IN (IF piece = <<>> THEN <<>> ELSE <<ParsePiece(piece)>>) \o ParseQuery(rest)

\* params.toString()
RECURSIVE Serialize(_)
Serialize(es) ==
  IF es = <<>> THEN <<>>
  ELSE Encode(es[1][1]) \o <<"=">> \o Encode(es[1][2])
       \o (IF Len(es) > 1 THEN <<"&">> \o Serialize(Tail(es)) ELSE <<>>)

\* params.delete(name)
RECURSIVE ParamsDelete(_, _)
ParamsDelete(es, name) ==
  IF es = <<>> THEN <<>>
  ELSE (IF es[1][1] = name THEN <<>> ELSE <<es[1]>>) \o ParamsDelete(Tail(es), name)

\* a set that adds the pair and keeps the pairs that were there
ParamsAppend(es, name, value) == Append(es, <<name, value>>)

\* params.set(name, value): the first pair of that name gets the value and
\* the others go; without such a pair the pair is added at the end
ParamsSet(es, name, value) ==
  LET at == {i \in 1..Len(es) : es[i][1] = name}
  IN IF at = {} THEN Append(es, <<name, value>>)
     ELSE LET first == CHOOSE i \in at : \A j \in at : i <= j
          IN SubSeq(es, 1, first - 1) \o <<<<name, value>>>>
             \o ParamsDelete(SubSeq(es, first + 1, Len(es)), name)

\* null where a decoded value is expected
NullValue == <<NULL>>

\* params.get(name): the value of the first pair of that name, or null
ParamsGet(es, name) ==
  LET at == {i \in 1..Len(es) : es[i][1] = name}
  IN IF at = {} THEN NullValue ELSE es[CHOOSE i \in at : \A j \in at : i <= j][2]

\* getCurrent(param): searchParams.get(param) || ""
GetCurrent(name) ==
  LET v == ParamsGet(ParseQuery(search), name)
  IN IF v = NullValue THEN <<>> ELSE v

\* updateQuery(param, value): the query string it navigates to
UpdateQuery(name, value) ==
  LET params == ParamsDelete(ParseQuery(search), <<"p">>)
  IN Serialize(IF value = <<>> THEN ParamsDelete(params, name)
               ELSE ParamsSet(params, name, value))

\* the value a select shows: its selected option, else its first option
SelectValue ==
  IF filterSelect.selected = {} THEN <<>>
  ELSE CHOOSE v \in filterSelect.selected : TRUE

\* DOMContentLoaded: injectServiceFilter()
InjectServiceFilter ==
  /\ loadPc = "loading"
  /\ loadPc' = "loaded"
  /\ filterSelect' =
       IF ~thPresent \/ filterSelect.present THEN filterSelect
       ELSE [present |-> TRUE,
             selected |-> {v \in OptionValues : v = GetCurrent(<<"service">>)}]
  /\ UNCHANGED <<pathname, search, hash, thPresent, navCount, lastNav>>
  /\ UNCHANGED <<varsPatch, varsMount>>

\* the change listener of the select: updateQuery("service", this.value), and
\* the browser loads url.pathname + "?" + params.toString(): the same path,
\* the new query string, no fragment
ChangeService(v) ==
  /\ filterSelect.present
  /\ v # SelectValue
  /\ navCount < MaxNav
  /\ search' = UpdateQuery(<<"service">>, v)
  /\ hash' = <<>>
  /\ filterSelect' = NoSelect
  /\ loadPc' = "loading"
  /\ navCount' = navCount + 1
  /\ lastNav' = [path |-> pathname, from |-> ParseQuery(search), value |-> v]
  /\ UNCHANGED <<pathname, thPresent>>
  /\ UNCHANGED <<varsPatch, varsMount>>

InitQuery ==
  /\ pathname = AdminPath
  /\ search \in InitQueries
  /\ hash \in {<<>>, <<"content">>}
  /\ thPresent \in BOOLEAN
  /\ filterSelect = NoSelect
  /\ loadPc = "loading"
  /\ navCount = 0
  /\ lastNav = NoNav

NextQuery ==
  \/ InjectServiceFilter
  \/ \E v \in OptionValues : ChangeService(v)

\* ========================================================================
\* Specifications.  The three scripts share no state; each specification
\* runs one of them and leaves the rest of the page as it is.
\* ========================================================================

IdlePatch ==
  /\ onPage = {}
  /\ jq = TRUE
  /\ s2cfg = [w \in Widgets |-> "none"]
  /\ ajaxData = [w \in Widgets |-> NoData]
  /\ dataObj = [w \in Widgets |-> EmptyObj]
  /\ patchedStoreId = [w \in Widgets |-> FALSE]
  /\ hasInput = [w \in Widgets |-> FALSE]
  /\ rowOf = [w \in Widgets |-> 1]
  /\ rows = [r \in Rows |-> [links |-> <<>>, hiddenIds |-> <<>>]]
  /\ empInit = "pending"
  /\ autoInit = "pending"
  /\ idAtPatch = [w \in Widgets |-> NULL]
  /\ skipped = [w \in Widgets |-> FALSE]
  /\ lastEvent = HostEvent

IdleMount ==
  /\ changelist = FALSE
  /\ filterRoot = FALSE
  /\ filterKids = <<>>
  /\ toolbar = FALSE
  /\ actionsBar = FALSE
  /\ panels = <<>>
  /\ docListeners = <<>>
  /\ mountPc = 0
  /\ clicks = <<>>
  /\ lastMount = HostEvent

IdleQuery ==
  /\ pathname = AdminPath
  /\ search = <<>>
  /\ hash = <<>>
  /\ thPresent = FALSE
  /\ filterSelect = NoSelect
  /\ loadPc = "loading"
  /\ navCount = 0
  /\ lastNav = NoNav

InitPatchPage == InitPatch /\ IdleMount /\ IdleQuery
SpecPatch == InitPatchPage /\ [][NextPatch]_vars

InitMountPage == InitMount /\ IdlePatch /\ IdleQuery
SpecMount == InitMountPage /\ [][NextMount]_vars

InitClicksPage == InitClicks /\ IdlePatch /\ IdleQuery
SpecClicks == InitClicksPage /\ [][NextClicks]_vars

InitQueryPage == InitQuery /\ IdlePatch /\ IdleMount
SpecQuery == InitQueryPage /\ [][NextQuery]_vars

\* ------------------------------------------------------------------------
\* Properties of the service filter
\* ------------------------------------------------------------------------
RECURSIVE Others(_)
Others(es) ==
  IF es = <<>> THEN <<>>
  ELSE (IF es[1][1] \in {<<"p">>, <<"service">>} THEN <<>> ELSE <<es[1]>>)
       \o Others(Tail(es))

Named(es, name) == {i \in 1..Len(es) : es[i][1] = name}

\* C9: after a selection in the service filter the new location has the path
\* of the old one and no p
\* parameter, its service parameter is the selected value (none for the empty
\* value), every other parameter is as before, and the select injected on
\* the new page marks exactly the option of that value.
C9_NavigationKeepsOthers ==
  navCount > 0 =>
    LET now == ParseQuery(search)
        v == lastNav.value
    IN /\ pathname = lastNav.path
       /\ Named(now, <<"p">>) = {}
       /\ IF v = <<>> THEN Named(now, <<"service">>) = {}
          ELSE Named(now, <<"service">>) # {}
               /\ \A i \in Named(now, <<"service">>) : now[i][2] = v
       /\ Others(now) = Others(lastNav.from)
       /\ filterSelect.present => filterSelect.selected = {v}

C9_Witness ==
  /\ navCount > 0
  /\ filterSelect.present
  /\ filterSelect.selected = {<<"both">>}
  /\ Cardinality(Named(lastNav.from, <<"service">>)) = 2
  /\ \E i \in 1..Len(lastNav.from) : lastNav.from[i][2] = <<"a", "&", "b">>
  /\ ParamsGet(ParseQuery(search), <<"q">>) = <<"a", "&", "b">>

====
